---- MODULE Spec2Model ----
(***************************************************************************)
(* A model of goverify: tag-driven validation and transformation of Go     *)
(* structs (Validate, Transform, AddRule, AddTransformer).                 *)
(*                                                                         *)
(* Representation.                                                         *)
(*   A Go string is a sequence of atoms.  The delimiters the code splits   *)
(*   on (" ", "=", ",", ".") and every character of a field value are      *)
(*   atoms of their own; a rule or transform name is written as one atom   *)
(*   ("required").  No field value can spell a name atom, since the value  *)
(*   alphabet lacks the letters of every name.                             *)
(*   A reflect.Value is a record with a kind:                              *)
(*     [kind |-> "string", s |-> <<atoms>>]                                *)
(*     [kind |-> "int", n |-> 0]                                           *)
(*     [kind |-> "struct", fields |-> <<field, ...>>]                      *)
(*     [kind |-> "ptr", elem |-> <<>>] (nil) or <<value>>                   *)
(*     [kind |-> "slice", elems |-> <<value, ...>>]                        *)
(*     [kind |-> "invalid"]   the zero reflect.Value                       *)
(*     [kind |-> "nil"]       the untyped nil interface                    *)
(*   A struct field is [name, exported, vtag, ttag, val]: reflect's        *)
(*   StructField (name, tags) together with the field's value.             *)
(***************************************************************************)
EXTENDS Integers, Sequences, FiniteSets, TLC

\* ------------------------------------------------------------- bounds
\* Most tokens in a transform tag of the transform-ordering inputs.
MaxTokens == 3
\* Most tokens in a validator tag of the validation inputs.
MaxRules == 2
\* Depth of the call stack at which the runtime gives up (the goroutine's
\* stack limit).
MaxDepth == 5

\* ------------------------------------------------------------- state
VARIABLES
    rules,           \* v.rules: rule name -> ValidationRule
    transformers,    \* transformers: transform name -> TransformFunc
    priorityLookup,  \* priorityLookup: transform name -> priority
    arg,             \* the dto the last call was given, as it was before the call
    dto,             \* the same dto after the call (Transform mutates in place)
    ret,             \* what the last call returned, and the functions it invoked
    latest,          \* per registry, the function each registration call last gave a name
    flight,          \* per goroutine, the call it is running and the registry reads made
    run              \* a call followed step by step: the records, the call stack, its status

vars == <<rules, transformers, priorityLookup, arg, dto, ret, latest, flight, run>>

\* ------------------------------------------------------------- strings

\* unicode.IsSpace on the characters of the model's alphabet.
IsSpace(c) == c \in {" ", "\t", "\n", "\r", "\f"}

Min(S) == CHOOSE i \in S : \A j \in S : i <= j

\* strings.Fields: the maximal runs of non-space atoms.
RECURSIVE Fields(_)
Fields(s) ==
    IF s = <<>> THEN <<>>
    ELSE IF IsSpace(Head(s)) THEN Fields(Tail(s))
    ELSE LET stops == {i \in 1..Len(s) : IsSpace(s[i])}
             n == IF stops = {} THEN Len(s) + 1 ELSE Min(stops)
         IN  <<SubSeq(s, 1, n - 1)>> \o Fields(SubSeq(s, n, Len(s)))

\* strings.Split(s, sep) for a one-character separator.
RECURSIVE Split(_, _)
Split(s, sep) ==
    LET hits == {i \in 1..Len(s) : s[i] = sep}
    IN  IF hits = {} THEN <<s>>
        ELSE <<SubSeq(s, 1, Min(hits) - 1)>>
                 \o Split(SubSeq(s, Min(hits) + 1, Len(s)), sep)

\* strings.TrimSpace: drops leading and trailing white space.
RECURSIVE TrimSpace(_)
TrimSpace(s) ==
    IF s = <<>> THEN s
    ELSE IF IsSpace(Head(s)) THEN TrimSpace(Tail(s))
    ELSE IF IsSpace(s[Len(s)]) THEN TrimSpace(SubSeq(s, 1, Len(s) - 1))
    ELSE s

\* strings.ReplaceAll(s, c, ""): drops every occurrence of the character c.
RemoveAll(s, c) == SelectSeq(s, LAMBDA x : x # c)

LowerOf(c) == CASE c = "A" -> "a" [] c = "B" -> "b" [] OTHER -> c
UpperOf(c) == CASE c = "a" -> "A" [] c = "b" -> "B" [] OTHER -> c

\* strings.ToLower / strings.ToUpper, character by character.
ToLower(s) == [i \in 1..Len(s) |-> LowerOf(s[i])]
ToUpper(s) == [i \in 1..Len(s) |-> UpperOf(s[i])]

\* strconv.Itoa / fmt's %d for the small indices of the model.
Itoa(i) == <<"0", "1", "2", "3", "4", "5", "6", "7", "8", "9">>[i + 1]

\* ------------------------------------------------------------- values

StringV(s) == [kind |-> "string", s |-> s]
IntV(n) == [kind |-> "int", n |-> n]
StructV(fs) == [kind |-> "struct", fields |-> fs]
NilPtr == [kind |-> "ptr", elem |-> <<>>]
PtrTo(v) == [kind |-> "ptr", elem |-> <<v>>]
SliceV(es) == [kind |-> "slice", elems |-> es]
InvalidV == [kind |-> "invalid"]
NilIface == [kind |-> "nil"]

FieldDecl(name, exported, vtag, ttag, val) ==
    [name |-> name, exported |-> exported, vtag |-> vtag, ttag |-> ttag, val |-> val]

\* Elem that follows a chain of pointers to its end.
RECURSIVE ElemDeep(_)
ElemDeep(v) ==
    IF v.elem = <<>> THEN InvalidV
    ELSE IF v.elem[1].kind = "ptr" THEN ElemDeep(v.elem[1]) ELSE v.elem[1]

\* reflect.Value.Elem on a pointer: the zero Value for a nil pointer.
Elem(v) == IF v.elem = <<>> THEN InvalidV ELSE v.elem[1]

\* reflect.Zero(v.Type()): the zero value of v's type.
RECURSIVE Zero(_)
Zero(v) ==
    CASE v.kind = "string" -> StringV(<<>>)
      [] v.kind = "int" -> IntV(0)
      [] v.kind = "ptr" -> NilPtr
      [] v.kind = "slice" -> SliceV(<<>>)
      [] v.kind = "struct" ->
            StructV([i \in 1..Len(v.fields) |->
                        [v.fields[i] EXCEPT !.val = Zero(v.fields[i].val)]])
      [] OTHER -> v

\* reflect's flags of a Value: addressable, and read-only (reached through
\* an unexported field).  CanSet is addressable and not read-only.
Flags(addr, ro) == [addr |-> addr, ro |-> ro]
\* CanSet that forgets addressability.
CanSetAny(fl) == ~fl.ro
CanSet(fl) == fl.addr /\ ~fl.ro
\* Value.Field(i): addressability of the struct, read-only if unexported.
FieldFlags(fl, f) == Flags(fl.addr, fl.ro \/ ~f.exported)
\* Value.Elem() of a pointer and Value.Index(j) of a slice: addressable.
DerefFlags(fl) == Flags(TRUE, fl.ro)

\* ------------------------------------------------------------- maps

\* m[k] of a Go map: the zero value (a nil slice) when k is absent.
MapGet(m, k) == IF k \in DOMAIN m THEN m[k] ELSE <<>>
\* m[k] = v
MapPut(m, k, v) == [x \in DOMAIN m \cup {k} |-> IF x = k THEN v ELSE m[x]]
\* A nil or empty map.
EmptyMap == [x \in {} |-> <<>>]

\* ------------------------------------------------------------- errors

\* NewErr: a non-nil *Err.  An error result is <<>> (nil) or <<err>>.
NewErr(msg, fields) == <<[Msg |-> msg, Fields |-> fields]>>

\* ------------------------------------------------------------- registry reads

\* The registry as the n-th lookup of a call reads it.  A call that runs
\* alone reads the registry as it is now (o.seen is empty); a call that is
\* interleaved with others has read o.seen[n] at its n-th lookup.
Oracle(seen, cur) == [seen |-> seen, cur |-> cur]
\* A lookup that reads the registry as it is when the call returns.
LookupAtReturn(o, n) == o.cur
Lookup(o, n) == IF n <= Len(o.seen) THEN o.seen[n] ELSE o.cur
\* Lookups made and functions invoked so far by a call.
Start == [n |-> 0, calls |-> <<>>]
Called(st, n, path, name, fn) ==
    [n |-> n, calls |-> Append(st.calls, [path |-> path, name |-> name, fn |-> fn])]

\* ------------------------------------------------------------- transforms

Done(v) == [val |-> v, err |-> <<>>]
Failed(v, msg) == [val |-> v, err |-> <<msg>>]

\* trim that drops one white-space character from each end.
trimOnceFn(v) ==
    IF v.kind # "string" THEN Done(v)
    ELSE LET a == IF v.s # <<>> /\ IsSpace(Head(v.s)) THEN Tail(v.s) ELSE v.s
         IN  Done(StringV(IF a # <<>> /\ IsSpace(a[Len(a)]) THEN SubSeq(a, 1, Len(a) - 1) ELSE a))
trimFn(v) ==
    IF v.kind # "string" THEN Done(v) ELSE Done(StringV(TrimSpace(v.s)))
lowercaseFn(v) ==
    IF v.kind # "string" THEN Done(v) ELSE Done(StringV(ToLower(v.s)))
uppercaseFn(v) ==
    IF v.kind # "string" THEN Done(v) ELSE Done(StringV(ToUpper(v.s)))
remove_whitespaceFn(v) ==
    IF v.kind # "string" THEN Done(v)
    ELSE Done(StringV(RemoveAll(RemoveAll(RemoveAll(RemoveAll(v.s, " "), "\t"), "\n"), "\r")))

\* Two caller-supplied TransformFuncs: one that fails and leaves the value
\* alone, and one that sets a value of any kind to its zero value.
rejectFn(v) == Failed(v, <<"rejected">>)
resetFn(v) == Done(Zero(v))
\* A TransformFunc that succeeds and leaves the value alone.
passFn(v) == Done(v)
\* The characters slugify's pattern [^a-z0-9-] keeps.
SlugChars == {"a", "b", "n", "-"}
\* The slugify of the documentation: lower case, spaces to dashes, and
\* everything else that is not a lower-case letter, a digit or a dash dropped.
slugifyFn(v) ==
    IF v.kind # "string" THEN Done(v)
    ELSE LET lower == ToLower(v.s)
             dashed == [i \in 1..Len(lower) |-> IF lower[i] = " " THEN "-" ELSE lower[i]]
         IN  Done(StringV(SelectSeq(dashed, LAMBDA c : c \in SlugChars)))

\* Calling the TransformFunc fn on v.
CallTransform(fn, v) ==
    CASE fn = "trim" -> trimFn(v)
      [] fn = "lowercase" -> lowercaseFn(v)
      [] fn = "uppercase" -> uppercaseFn(v)
      [] fn = "remove_whitespace" -> remove_whitespaceFn(v)
      [] fn = "reject" -> rejectFn(v)
      [] fn = "slugify" -> slugifyFn(v)
      [] fn = "reset" -> resetFn(v)
      [] fn = "pass" -> passFn(v)

\* A priority that puts the names absent from the map after the listed ones.
PriorityLast(order, t) == IF t \in DOMAIN order THEN order[t] ELSE 5
\* order[name] of a Go map of ints: 0 when the name is absent.
Priority(order, t) == IF t \in DOMAIN order THEN order[t] ELSE 0

Swap(s, i, j) == [s EXCEPT ![i] = s[j], ![j] = s[i]]

\* The two nested loops of orderTransforms, at indices i < j (1-based).
RECURSIVE SortFrom(_, _, _, _)
SortFrom(order, ordered, i, j) ==
    IF i > Len(ordered) - 1 THEN ordered
    ELSE IF j > Len(ordered) THEN SortFrom(order, ordered, i + 1, i + 2)
    ELSE IF Priority(order, ordered[i]) > Priority(order, ordered[j])
         THEN SortFrom(order, Swap(ordered, i, j), i, j + 1)
         ELSE SortFrom(order, ordered, i, j + 1)

\* orderTransforms that leaves the transforms in their declared order.
orderTransformsDeclared(transforms) == transforms

orderTransforms(transforms) == SortFrom(priorityLookup, transforms, 1, 2)

\* The loop of applyTransformations over the ordered transforms, from the
\* i-th: one registry lookup per token, stops at the first failure.
RECURSIVE RunTransforms(_, _, _, _, _, _)
RunTransforms(ordered, i, v, path, o, st) ==
    IF i > Len(ordered) THEN [val |-> v, err |-> <<>>, st |-> st]
    ELSE LET t == ordered[i]
             n == st.n + 1
             reg == Lookup(o, n)
         IN  IF t \in DOMAIN reg
             THEN LET r == CallTransform(reg[t], v)
                      st2 == Called(st, n, path, t, reg[t])
                  IN  IF r.err # <<>>
                      THEN [val |-> r.val, err |-> r.err, st |-> st2]
                      ELSE RunTransforms(ordered, i + 1, r.val, path, o, st2)
             ELSE RunTransforms(ordered, i + 1, v, path, o, [st EXCEPT !.n = n])

applyTransformations(v, field, fl, path, o, st) ==
    IF ~CanSet(fl) THEN [val |-> v, err |-> <<>>, st |-> st]
    ELSE IF field.ttag = <<>> THEN [val |-> v, err |-> <<>>, st |-> st]
    ELSE RunTransforms(orderTransforms(Fields(field.ttag)), 1, v, path, o, st)

\* MergePrefixed that merges the nested keys as they are.
MergeUnprefixed(violations, prefix, fields) ==
    [x \in DOMAIN violations \cup DOMAIN fields |->
        IF x \in DOMAIN fields THEN fields[x] ELSE violations[x]]

\* The field map of a nested *Err re-keyed into the caller's violations:
\* violations[prefix + k] = v for every k, v of fields.
MergePrefixed(violations, prefix, fields) ==
    [x \in DOMAIN violations \cup {prefix \o k : k \in DOMAIN fields} |->
        IF \E k \in DOMAIN fields : x = prefix \o k
        THEN fields[CHOOSE k \in DOMAIN fields : x = prefix \o k]
        ELSE violations[x]]

SetField(val, i, v) == [val EXCEPT !.fields[i].val = v]

\* What transformStruct returns: the struct as it has become, the error
\* (nil, or "transformation failed" with the violations), and the lookups.
StructResult(val, violations, st) ==
    [val |-> val,
     err |-> IF DOMAIN violations # {}
             THEN NewErr(<<"transformation failed">>, violations) ELSE <<>>,
     st |-> st]

RECURSIVE transformStruct(_, _, _, _, _)
RECURSIVE FieldLoop(_, _, _, _, _, _, _)
RECURSIVE SliceLoop(_, _, _, _, _, _, _, _)

\* "Apply transformations to the field", then on to the next field.
ApplyOwn(val, i, fl, path, o, violations, st) ==
    LET field == val.fields[i]
        a == applyTransformations(field.val, field, FieldFlags(fl, field),
                                  path \o <<field.name>>, o, st)
        key == <<field.name>>
    IN  FieldLoop(SetField(val, i, a.val), i + 1, fl, path, o,
                  IF a.err # <<>>
                  THEN MapPut(violations, key, Append(MapGet(violations, key), a.err[1]))
                  ELSE violations,
                  a.st)

\* The loop of transformStruct over the elements of slice field i of val,
\* from element j (1-based; the code's index is j - 1).
SliceLoop(val, i, j, fl, path, o, violations, st) ==
    LET field == val.fields[i]
        elems == field.val.elems
    IN  IF j > Len(elems) THEN [val |-> val, violations |-> violations, st |-> st]
        ELSE IF elems[j].kind # "struct"
        THEN SliceLoop(val, i, j + 1, fl, path, o, violations, st)
        ELSE LET idx == <<field.name, "[", Itoa(j - 1), "]", ".">>
                 r == transformStruct(elems[j], DerefFlags(FieldFlags(fl, field)),
                                      path \o idx, o, st)
                 val1 == [val EXCEPT !.fields[i].val.elems[j] = r.val]
             IN  SliceLoop(val1, i, j + 1, fl, path, o,
                           IF r.err # <<>>
                           THEN MergePrefixed(violations, idx, r.err[1].Fields)
                           ELSE violations,
                           r.st)

\* The loop of transformStruct over the fields of val, from the i-th.
FieldLoop(val, i, fl, path, o, violations, st) ==
    IF i > Len(val.fields) THEN StructResult(val, violations, st)
    ELSE
    LET field == val.fields[i]
        fieldVal == field.val
        ffl == FieldFlags(fl, field)
        dot == <<field.name, ".">>
    IN  CASE fieldVal.kind = "struct" ->
               LET r == transformStruct(fieldVal, ffl, path \o dot, o, st)
                   val1 == SetField(val, i, r.val)
               IN  IF r.err # <<>>
                   THEN FieldLoop(val1, i + 1, fl, path, o,
                                  MergePrefixed(violations, dot, r.err[1].Fields), r.st)
                   ELSE ApplyOwn(val1, i, fl, path, o, violations, r.st)
          [] fieldVal.kind = "ptr" /\ Elem(fieldVal).kind = "struct" ->
               LET r == transformStruct(Elem(fieldVal), DerefFlags(ffl), path \o dot, o, st)
                   val1 == SetField(val, i, PtrTo(r.val))
               IN  IF r.err # <<>>
                   THEN FieldLoop(val1, i + 1, fl, path, o,
                                  MergePrefixed(violations, dot, r.err[1].Fields), r.st)
                   ELSE ApplyOwn(val1, i, fl, path, o, violations, r.st)
          [] fieldVal.kind = "slice" ->
               LET r == SliceLoop(val, i, 1, fl, path, o, violations, st)
               IN  ApplyOwn(r.val, i, fl, path, o, r.violations, r.st)
          [] OTHER -> ApplyOwn(val, i, fl, path, o, violations, st)

\* transformStruct(val): val has flags fl and is reached by path (the path
\* is kept for the record of invocations only; the code does not know it).
transformStruct(val, fl, path, o, st) ==
    FieldLoop(val, 1, fl, path, o, EmptyMap, st)

\* Transform(dto), its registry reads given by o: the dto as it has become,
\* the error returned and the invocations made.
Transform(d, o) ==
    IF d.kind = "nil"
    THEN [dto |-> d, err |-> NewErr(<<"invalid payload">>, EmptyMap), st |-> Start]
    ELSE LET val == IF d.kind = "ptr" THEN Elem(d) ELSE d
             fl == IF d.kind = "ptr" THEN DerefFlags(Flags(FALSE, FALSE))
                   ELSE Flags(FALSE, FALSE)
         IN  IF val.kind # "struct"
             THEN [dto |-> d, err |-> NewErr(<<"input must be a struct">>, EmptyMap),
                   st |-> Start]
             ELSE LET r == transformStruct(val, fl, <<>>, o, Start)
                  IN  [dto |-> IF d.kind = "ptr" THEN PtrTo(r.val) ELSE r.val,
                       err |-> r.err, st |-> r.st]

\* ------------------------------------------------------------- rules

HasPrefix(s, p) == Len(s) >= Len(p) /\ SubSeq(s, 1, Len(p)) = p
TrimPrefix(s, p) == IF HasPrefix(s, p) THEN SubSeq(s, Len(p) + 1, Len(s)) ELSE s

Digits == <<"0", "1", "2", "3", "4", "5", "6", "7", "8", "9">>
DigitOf(c) == (CHOOSE i \in 1..Len(Digits) : Digits[i] = c) - 1
\* strconv.Atoi on an unsigned decimal: whether it parses, and its value.
AtoiOk(s) == s # <<>> /\ \A i \in 1..Len(s) : \E k \in 1..Len(Digits) : Digits[k] = s[i]
RECURSIVE AtoiVal(_)
AtoiVal(s) ==
    IF s = <<>> THEN 0 ELSE 10 * AtoiVal(SubSeq(s, 1, Len(s) - 1)) + DigitOf(s[Len(s)])

\* parseParams: the tag split on ",", each piece split on "=", and the
\* pieces with exactly two parts kept as key -> value (a later pair wins).
RECURSIVE ParamsFrom(_, _, _)
ParamsFrom(pairs, i, params) ==
    IF i > Len(pairs) THEN params
    ELSE LET kv == Split(pairs[i], "=")
         IN  ParamsFrom(pairs, i + 1,
                        IF Len(kv) = 2 THEN MapPut(params, kv[1], kv[2]) ELSE params)

parseParams(tag) == ParamsFrom(Split(tag, ","), 1, EmptyMap)

\* Regular expressions of the model: literal characters, "^" and "$"; an
\* unclosed "(" is the one pattern regexp.Compile rejects.
CompileOk(pattern) == \A i \in 1..Len(pattern) : pattern[i] # "("

\* Whether pattern, from its i-th atom, matches s starting after pos characters.
RECURSIVE MatchAt(_, _, _, _)
MatchAt(pattern, i, s, pos) ==
    IF i > Len(pattern) THEN TRUE
    ELSE CASE pattern[i] = "^" -> pos = 0 /\ MatchAt(pattern, i + 1, s, pos)
           [] pattern[i] = "$" -> pos = Len(s) /\ MatchAt(pattern, i + 1, s, pos)
           [] OTHER -> /\ pos < Len(s)
                       /\ s[pos + 1] = pattern[i]
                       /\ MatchAt(pattern, i + 1, s, pos + 1)

\* Regexp.MatchString: the pattern matches somewhere in s.
MatchString(pattern, s) == \E pos \in 0..Len(s) : MatchAt(pattern, 1, s, pos)

requiredRule(v, field) ==
    CASE v.kind = "string" -> IF v.s = <<>> THEN <<<<"field is required">>>> ELSE <<>>
      [] v.kind = "int" -> IF v.n = 0 THEN <<<<"field is required">>>> ELSE <<>>
      [] v.kind = "slice" -> IF Len(v.elems) = 0 THEN <<<<"field is required">>>> ELSE <<>>
      [] OTHER -> <<>>

minRule(v, field) ==
    LET toks == Fields(field.vtag)
        hits == {i \in 1..Len(toks) : HasPrefix(toks[i], <<"min", "=">>)}
        valStr == TrimPrefix(toks[Min(hits)], <<"min", "=">>)
        minLength == IF hits = {} THEN 0 ELSE AtoiVal(valStr)
    IN  IF hits # {} /\ ~AtoiOk(valStr) THEN <<<<"invalid min: ">> \o valStr>>
        ELSE CASE v.kind = "string" ->
                    IF Len(v.s) < minLength
                    THEN <<<<"length must be at least ", Itoa(minLength)>>>> ELSE <<>>
               [] v.kind = "slice" ->
                    IF Len(v.elems) < minLength
                    THEN <<<<"must have at least ", Itoa(minLength), " items">>>> ELSE <<>>
               [] OTHER -> <<>>

patternRule(v, field) ==
    IF v.kind # "string" THEN <<>>
    ELSE LET params == parseParams(field.vtag)
         IN  IF <<"pattern">> \notin DOMAIN params THEN <<>>
             ELSE IF ~CompileOk(params[<<"pattern">>]) THEN <<>>
             ELSE IF ~MatchString(params[<<"pattern">>], v.s) THEN <<<<"invalid format">>>>
             ELSE <<>>

\* Two caller-supplied ValidationRules: one that wants an upper-case string,
\* and one that returns two messages for every value.
upperRule(v, field) ==
    IF v.kind # "string" THEN <<>>
    ELSE IF ToUpper(v.s) # v.s THEN <<<<"must be upper case">>>> ELSE <<>>
bothRule(v, field) == <<<<"first">>, <<"second">>>>

\* Calling the ValidationRule fn on a field's value and its StructField.
CallRule(fn, v, field) ==
    CASE fn = "required" -> requiredRule(v, field)
      [] fn = "min" -> minRule(v, field)
      [] fn = "pattern" -> patternRule(v, field)
      [] fn = "upper" -> upperRule(v, field)
      [] fn = "both" -> bothRule(v, field)

\* ------------------------------------------------------------- Validate

\* AppendErrs that keeps only the messages of the last failing rule.
AppendErrsOverwrite(violations, name, errs) == MapPut(violations, <<name>>, errs)

\* violations[field.Name] = append(violations[field.Name], errs...)
AppendErrs(violations, name, errs) ==
    MapPut(violations, <<name>>, MapGet(violations, <<name>>) \o errs)

\* The loop of Validate over the tokens of one field's tag, from the k-th.
RECURSIVE RuleLoop(_, _, _, _, _, _)
RuleLoop(field, toks, k, o, violations, st) ==
    IF k > Len(toks) THEN [violations |-> violations, st |-> st]
    ELSE LET ruleName == Split(toks[k], "=")[1]
             n == st.n + 1
             reg == Lookup(o, n)
         IN  IF ruleName \in DOMAIN reg
             THEN LET errs == CallRule(reg[ruleName], field.val, field)
                  IN  RuleLoop(field, toks, k + 1, o,
                               IF Len(errs) > 0
                               THEN AppendErrs(violations, field.name, errs)
                               ELSE violations,
                               Called(st, n, <<field.name>>, ruleName, reg[ruleName]))
             ELSE RuleLoop(field, toks, k + 1, o, violations, [st EXCEPT !.n = n])

\* A field loop that also validates the fields of a struct field.
RECURSIVE ValidateLoopDeep(_, _, _, _, _)
ValidateLoopDeep(val, i, o, violations, st) ==
    IF i > Len(val.fields) THEN [violations |-> violations, st |-> st]
    ELSE LET field == val.fields[i]
             own == IF field.vtag = <<>> THEN [violations |-> violations, st |-> st]
                    ELSE RuleLoop(field, Fields(field.vtag), 1, o, violations, st)
             inner == IF field.val.kind = "struct"
                      THEN ValidateLoopDeep(field.val, 1, o, own.violations, own.st)
                      ELSE own
         IN  ValidateLoopDeep(val, i + 1, o, inner.violations, inner.st)

\* The loop of Validate over the fields of val, from the i-th.
RECURSIVE ValidateLoop(_, _, _, _, _)
ValidateLoop(val, i, o, violations, st) ==
    IF i > Len(val.fields) THEN [violations |-> violations, st |-> st]
    ELSE LET field == val.fields[i]
         IN  IF field.vtag = <<>> THEN ValidateLoop(val, i + 1, o, violations, st)
             ELSE LET r == RuleLoop(field, Fields(field.vtag), 1, o, violations, st)
                  IN  ValidateLoop(val, i + 1, o, r.violations, r.st)

\* Validate(dto), its registry reads given by o: ok, the error, the invocations.
Validate(d, o) ==
    IF d.kind = "nil"
    THEN [ok |-> FALSE, err |-> NewErr(<<"invalid payload">>, EmptyMap), st |-> Start]
    ELSE LET val == IF d.kind = "ptr" THEN Elem(d) ELSE d
         IN  IF val.kind # "struct"
             THEN [ok |-> FALSE, err |-> NewErr(<<"input must be a struct">>, EmptyMap),
                   st |-> Start]
             ELSE LET r == ValidateLoop(val, 1, o, EmptyMap, Start)
                  IN  IF DOMAIN r.violations # {}
                      THEN [ok |-> FALSE,
                            err |-> NewErr(<<"validation failed">>, r.violations),
                            st |-> r.st]
                      ELSE [ok |-> TRUE, err |-> <<>>, st |-> r.st]

\* ------------------------------------------------------------- inputs

\* Joins tokens with single spaces into a tag.
RECURSIVE Join(_)
Join(toks) ==
    IF toks = <<>> THEN <<>>
    ELSE IF Len(toks) = 1 THEN toks[1]
    ELSE toks[1] \o <<" ">> \o Join(Tail(toks))

\* All sequences over S of length at most n.
SeqsUpTo(S, n) == UNION {[1..k -> S] : k \in 0..n}

\* Tokens of the validator tags: built-in rules, a name AddRule may bind
\* ("uuid"), and a name nothing binds ("foobar123").
RuleTokens ==
    {<<"required">>, <<"min", "=", "2">>, <<"uuid">>, <<"foobar123">>,
     <<"pattern", "=", "^", "a", "$">>}
ValidatorTags == {Join(t) : t \in SeqsUpTo(RuleTokens, MaxRules)}

\* type Account struct { Name string `validator:"<tag>"`; Code string `validator:"uuid"`;
\*                       Count int `validator:"required"`; Note string }
Account(tag, name, code) ==
    StructV(<<FieldDecl("Name", TRUE, tag, <<>>, StringV(name)),
              FieldDecl("Code", TRUE, <<"uuid">>, <<>>, StringV(code)),
              FieldDecl("Count", TRUE, <<"required">>, <<>>, IntV(1)),
              FieldDecl("Note", TRUE, <<>>, <<>>, StringV(<<>>))>>)

Accounts ==
    {PtrTo(Account(tag, name, code)) :
        tag \in ValidatorTags, name \in {<<>>, <<"a">>, <<"a", "b">>}, code \in {<<"a">>, <<"A">>}}
    \cup {Account(<<"required">>, name, <<"A">>) : name \in {<<>>, <<"a">>}}

\* Validator tags and values of nested fields.
NestedTags ==
    {<<>>, <<"required">>, <<"min", "=", "2">>, <<"uuid">>, <<"pattern", "=", "^", "a", "$">>}
NestedTexts == {<<>>, <<"a">>, <<"b">>}
\* type Leaf struct { X string `validator:"<tn>"` }
Leaf(tn, x) == StructV(<<FieldDecl("X", TRUE, tn, <<>>, StringV(x))>>)
\* type Owner struct { Name string `validator:"required"`; Inner Leaf `validator:"required"`;
\*                     Ref *Leaf `validator:"<tn>"`; Items []Leaf `validator:"required min=2"` }
Owner(tn, x, name) ==
    StructV(<<FieldDecl("Name", TRUE, <<"required">>, <<>>, StringV(name)),
              FieldDecl("Inner", TRUE, <<"required">>, <<>>, Leaf(tn, x)),
              FieldDecl("Ref", TRUE, tn, <<>>, PtrTo(Leaf(tn, x))),
              FieldDecl("Items", TRUE, <<"required", " ", "min", "=", "2">>, <<>>,
                        SliceV(<<Leaf(tn, x)>>))>>)
Owners ==
    {PtrTo(Owner(tn, x, name)) : tn \in NestedTags, x \in NestedTexts, name \in {<<>>, <<"a">>}}

\* A few of them, for the runs that also register transformers.
SomeTags ==
    {<<"required">>, <<"required", " ", "min", "=", "2">>, <<"foobar123", " ", "uuid">>,
     <<"pattern", "=", "^", "a", "$">>,
     <<"pattern", "=", "^", "a", "$", " ", "foobar123">>,
     <<"foobar123", " ", "pattern", "=", "^", "a", "$">>}
SomeAccounts ==
    {PtrTo(Account(tag, name, <<"a">>)) : tag \in SomeTags, name \in {<<>>, <<"a">>, <<"b">>}}
    \cup {Account(<<"required">>, <<>>, <<"A">>)}

\* type Label struct { Text string `transform:"<tag>"` }, its tag made of
\* built-in transform names.
BuiltinNames == {<<"trim">>, <<"remove_whitespace">>, <<"lowercase">>, <<"uppercase">>}
BuiltinTags == {Join(t) : t \in SeqsUpTo(BuiltinNames, MaxTokens)}
Label(tag, text) == StructV(<<FieldDecl("Text", TRUE, <<>>, tag, StringV(text))>>)
Texts ==
    {<<" ", "A", "b", " ">>, <<"a", " ", "B">>, <<"\t", "A", "\f">>, <<" ", " ", "b", "\n">>}
Labels == {PtrTo(Label(tag, text)) : tag \in BuiltinTags, text \in Texts}

\* type Post struct { Title string `transform:"<tag>"` }, its tag made of
\* built-in names and of names only AddTransformer binds.
PostNames == {<<"trim">>, <<"lowercase">>, <<"slugify">>, <<"check">>}
PostTags == {Join(t) : t \in SeqsUpTo(PostNames, MaxTokens)}
Post(tag, text) == StructV(<<FieldDecl("Title", TRUE, <<>>, tag, StringV(text))>>)
Posts == {PtrTo(Post(tag, text)) : tag \in PostTags,
                                   text \in {<<" ", "A", "b", " ">>, <<"a", " ", "B">>}}

\* Inputs that are not struct-shaped: untyped nil, a nil pointer, scalars,
\* and a pointer to a pointer to a struct.
NotStructs ==
    {NilIface, NilPtr, IntV(7), StringV(<<"a">>), PtrTo(IntV(7)),
     PtrTo(PtrTo(Account(<<"required">>, <<>>, <<"a">>)))}

\* Transform tags of leaf fields and of aggregate fields: built-ins, names
\* AddTransformer may bind ("check", "wipe"), a name nothing binds.
LeafTags ==
    {<<"trim">>, <<"check">>, <<"check", " ", "uppercase">>,
     <<"uppercase", " ", "foobar123", " ", "trim">>}
AggregateTags == {<<>>, <<"wipe">>, <<"trim">>}

\* type Part struct { X string `transform:"<tx>"`; Y string `transform:"<ty>"` }
Part(tx, ty) ==
    StructV(<<FieldDecl("X", TRUE, <<>>, tx, StringV(<<" ", "a">>)),
              FieldDecl("Y", TRUE, <<>>, ty, StringV(<<"b", " ">>))>>)
\* type Cell struct { C string `transform:"<tc>"` }
Cell(tc) == StructV(<<FieldDecl("C", TRUE, <<>>, tc, StringV(<<"a", " ">>))>>)
\* type Group struct { B []Cell }
Group(tx, ty) ==
    StructV(<<FieldDecl("B", TRUE, <<>>, <<>>, SliceV(<<Cell(tx), Cell(ty)>>))>>)
\* type Order struct { Title string `transform:"<tx>"`; Inner Part `transform:"<ta>"`;
\*                     Ref *Part `transform:"<ta>"`; Items []Part `transform:"<ta>"`;
\*                     A Group; Nums []int; Next *Part; hidden string `transform:"trim"` }
Order(tx, ty, ta) ==
    StructV(<<FieldDecl("Title", TRUE, <<>>, tx, StringV(<<" ", "A", " ">>)),
              FieldDecl("Inner", TRUE, <<>>, ta, Part(tx, ty)),
              FieldDecl("Ref", TRUE, <<>>, ta, PtrTo(Part(ty, tx))),
              FieldDecl("Items", TRUE, <<>>, ta, SliceV(<<Part(tx, tx), Part(ty, tx)>>)),
              FieldDecl("A", TRUE, <<>>, <<>>, Group(tx, ty)),
              FieldDecl("Nums", TRUE, <<>>, <<"trim">>, SliceV(<<IntV(1)>>)),
              FieldDecl("Next", TRUE, <<>>, <<"trim">>, NilPtr),
              FieldDecl("hidden", FALSE, <<>>, <<"trim">>, StringV(<<" ", "a">>))>>)

Orders ==
    {PtrTo(Order(tx, ty, ta)) : tx \in LeafTags, ty \in LeafTags, ta \in AggregateTags}
    \cup {Order(tx, <<"trim">>, ta) : tx \in LeafTags, ta \in AggregateTags}

Inputs == NotStructs \cup SomeAccounts \cup Orders

\* ------------------------------------------------------------- registries

\* The bindings init() makes (of the built-in rules, those the tags use).
BuiltinRules ==
    (<<"required">> :> "required") @@ (<<"min">> :> "min") @@ (<<"pattern">> :> "pattern")
BuiltinTransformers ==
    (<<"trim">> :> "trim") @@ (<<"lowercase">> :> "lowercase")
        @@ (<<"uppercase">> :> "uppercase")
        @@ (<<"remove_whitespace">> :> "remove_whitespace")

\* The registration calls of the callers: name and function.
RuleRegistrations ==
    {<<<<"required">>, "both">>, <<<<"uuid">>, "upper">>, <<<<"uuid">>, "both">>}
TransformerRegistrations ==
    {<<<<"trim">>, "reject">>, <<<<"check">>, "reject">>, <<<<"check">>, "trim">>,
     <<<<"wipe">>, "reset">>}

\* ------------------------------------------------------------- operations

Idle == [op |-> "none", ok |-> TRUE, err |-> <<>>, calls |-> <<>>]

\* The records of the calls that are followed step by step:
\*   type Node struct { S string `transform:"trim"`; Inner Leaf; Items []Leaf;
\*                      Next *Node }
\*   type Leaf struct { X string `transform:"trim"` }
\* Node n's Next points to Node heap[n], or is nil (0).
Nodes == {1, 2, 3}
\* No call is running, and no Node points anywhere.
NoRun ==
    [heap |-> [n \in Nodes |-> 0], op |-> "none", root |-> 0, stack |-> <<>>,
     status |-> "idle", err |-> FALSE]

\* The goroutines that call Validate and Transform in parallel.
Workers == {"g1", "g2"}

\* A goroutine that is in no call.
NoCall ==
    [phase |-> "none", op |-> "none", d |-> NilIface, reg0 |-> EmptyMap, seen |-> <<>>,
     raced |-> FALSE, overlap |-> FALSE, res |-> [dto |-> NilIface, ok |-> TRUE, err |-> <<>>, calls |-> <<>>]]
\* The process after the runtime's "fatal error: concurrent map read and map write".
Crashed == [w \in Workers |-> [NoCall EXCEPT !.phase = "crashed"]]
Alive == \A w \in Workers : flight[w].phase # "crashed"

\* A registry write has no lock: it is unordered with the reads of every
\* call of op that is running.
MarkRaced(fl, op) ==
    [w \in Workers |->
        IF fl[w].phase = "run" /\ fl[w].op = op THEN [fl[w] EXCEPT !.raced = TRUE] ELSE fl[w]]

Init ==
    /\ rules = BuiltinRules
    /\ transformers = BuiltinTransformers
    /\ priorityLookup = (<<"trim">> :> 1) @@ (<<"remove_whitespace">> :> 2)
                            @@ (<<"lowercase">> :> 3) @@ (<<"uppercase">> :> 4)
    /\ arg = NilIface
    /\ dto = NilIface
    /\ ret = Idle
    /\ latest = [rules |-> EmptyMap, transformers |-> EmptyMap]
    /\ flight = [w \in Workers |-> NoCall]
    /\ run = NoRun

\* SetRule that keeps the binding a name already has.
SetRuleOnce(reg, key, rule) == IF key \in DOMAIN reg THEN reg ELSE MapPut(reg, key, rule)

\* v.rules[key] = rule
SetRule(reg, key, rule) == MapPut(reg, key, rule)
\* transformers[name] = fn
SetTransformer(reg, name, fn) == MapPut(reg, name, fn)

AddRule(key, rule) ==
    /\ Alive
    /\ rules' = SetRule(rules, key, rule)
    /\ flight' = MarkRaced(flight, "Validate")
    /\ latest' = [latest EXCEPT !.rules = (key :> rule) @@ @]
    /\ arg' = NilIface /\ dto' = NilIface
    /\ ret' = [Idle EXCEPT !.op = "AddRule"]
    /\ UNCHANGED <<transformers, priorityLookup, run>>

AddTransformer(name, fn) ==
    /\ Alive
    /\ transformers' = SetTransformer(transformers, name, fn)
    /\ flight' = MarkRaced(flight, "Transform")
    /\ latest' = [latest EXCEPT !.transformers = (name :> fn) @@ @]
    /\ arg' = NilIface /\ dto' = NilIface
    /\ ret' = [Idle EXCEPT !.op = "AddTransformer"]
    /\ UNCHANGED <<rules, priorityLookup, run>>

\* A call of Validate(d) that runs alone.
ValidateCall(d) ==
    LET r == Validate(d, Oracle(<<>>, rules))
    IN  /\ arg' = d
        /\ dto' = d
        /\ ret' = [op |-> "Validate", ok |-> r.ok, err |-> r.err, calls |-> r.st.calls]
        /\ UNCHANGED <<rules, transformers, priorityLookup, latest, flight, run>>

\* A call of Transform(d) that runs alone.
TransformCall(d) ==
    LET r == Transform(d, Oracle(<<>>, transformers))
    IN  /\ arg' = d
        /\ dto' = r.dto
        /\ ret' = [op |-> "Transform", ok |-> r.err = <<>>, err |-> r.err,
                   calls |-> r.st.calls]
        /\ UNCHANGED <<rules, transformers, priorityLookup, latest, flight, run>>

\* The caller is done with the last call's dto and result.
Discard ==
    /\ ret.op \in {"Validate", "Transform"}
    /\ arg' = NilIface /\ dto' = NilIface
    /\ ret' = Idle
    /\ UNCHANGED <<rules, transformers, priorityLookup, latest, flight, run>>

\* The caller makes its calls one after the other.
Ready == ret.op \notin {"Validate", "Transform"}

Register ==
    \/ \E p \in RuleRegistrations : AddRule(p[1], p[2])
    \/ \E p \in TransformerRegistrations : AddTransformer(p[1], p[2])

Next ==
    \/ Register
    \/ Ready /\ \E d \in Inputs : ValidateCall(d)
    \/ Ready /\ \E d \in Inputs : TransformCall(d)
    \/ Discard

Spec == Init /\ [][Next]_vars

\* Validation alone, over all the validator tags.
NextValidate ==
    \/ \E p \in RuleRegistrations : AddRule(p[1], p[2])
    \/ Ready /\ \E d \in Accounts \cup Owners : ValidateCall(d)
    \/ Discard

SpecValidate == Init /\ [][NextValidate]_vars

\* Transformation alone, over all the tags of built-in names.
NextOrder ==
    \/ \E p \in {<<<<"trim">>, "reject">>, <<<<"trim">>, "trim">>} : AddTransformer(p[1], p[2])
    \/ Ready /\ \E d \in Labels : TransformCall(d)
    \/ Discard

SpecOrder == Init /\ [][NextOrder]_vars

\* Transformation with custom transformers bound next to the built-in ones.
NextCustom ==
    \/ \E p \in {<<<<"slugify">>, "slugify">>, <<<<"check">>, "reject">>,
                  <<<<"check">>, "pass">>} : AddTransformer(p[1], p[2])
    \/ Ready /\ \E d \in Posts : TransformCall(d)
    \/ Discard

SpecCustom == Init /\ [][NextCustom]_vars

\* ------------------------------------------------------------- calls in parallel

\* The records the goroutines call with, one for each call.
ConcInputs ==
    {PtrTo(Account(<<"uuid", " ", "min", "=", "2">>, <<"a">>, <<"a">>)),
     PtrTo(Part(<<"check">>, <<"check", " ", "uppercase">>)),
     NilPtr}

\* The registry the calls of op read.
RegistryOf(op) == IF op = "Validate" THEN rules ELSE transformers

\* What a call returned: the dto as it has become, ok and the error, the
\* invocations and the number of lookups made.
FromValidate(d, r) ==
    [dto |-> d, ok |-> r.ok, err |-> r.err, calls |-> r.st.calls, n |-> r.st.n]
FromTransform(r) ==
    [dto |-> r.dto, ok |-> r.err = <<>>, err |-> r.err, calls |-> r.st.calls, n |-> r.st.n]

\* The call op(d), its registry reads given by o.
ResultOf(op, d, o) ==
    IF op = "Validate" THEN FromValidate(d, Validate(d, o)) ELSE FromTransform(Transform(d, o))

\* Goroutine w enters Validate(d) or Transform(d).
Begin(w, op, d) ==
    /\ flight[w].phase = "none"
    /\ flight' = [flight EXCEPT ![w] =
                    [NoCall EXCEPT !.phase = "run", !.op = op, !.d = d, !.reg0 = RegistryOf(op)]]
    /\ UNCHANGED <<rules, transformers, priorityLookup, arg, dto, ret, latest, run>>

\* The call f, which runs as r given the lookups it has made: it makes its
\* next lookup, reading the registry reg as it is now, or, its lookups all
\* made, returns.  met: another call is between two of its lookups.
Advance(f, r, reg, met) ==
    IF r.n > Len(f.seen)
    THEN [f EXCEPT !.seen = Append(@, reg), !.overlap = @ \/ (f.seen # <<>> /\ met)]
    ELSE [f EXCEPT !.phase = "done",
                   !.res = [dto |-> r.dto, ok |-> r.ok, err |-> r.err, calls |-> r.calls]]

\* The call of w runs up to and including its next registry lookup
\* (v.rules[ruleName], transformers[t]) or, after the last, to its return.
Step(w) ==
    /\ flight[w].phase = "run"
    /\ flight' = [flight EXCEPT ![w] =
            Advance(@, ResultOf(@.op, @.d, Oracle(@.seen, RegistryOf(@.op))), RegistryOf(@.op),
                    \E u \in Workers \ {w} : flight[u].phase = "run" /\ flight[u].seen # <<>>)]
    /\ UNCHANGED <<rules, transformers, priorityLookup, arg, dto, ret, latest, run>>

\* Goroutine w is done with the result of its call.
Collect(w) ==
    /\ flight[w].phase = "done"
    /\ flight' = [flight EXCEPT ![w] = NoCall]
    /\ UNCHANGED <<rules, transformers, priorityLookup, arg, dto, ret, latest, run>>

\* A map read that runs into an unsynchronised map write: the runtime may
\* stop the process.
Fatal ==
    /\ \E w \in Workers : flight[w].phase = "run" /\ flight[w].raced
    /\ flight' = Crashed
    /\ UNCHANGED <<rules, transformers, priorityLookup, arg, dto, ret, latest, run>>

NextConc ==
    \/ AddRule(<<"uuid">>, "upper")
    \/ AddTransformer(<<"check">>, "reject")
    \/ \E w \in Workers, op \in {"Validate", "Transform"}, d \in ConcInputs : Begin(w, op, d)
    \/ \E w \in Workers : Step(w)
    \/ \E w \in Workers : Collect(w)
    \/ Fatal

SpecConc == Init /\ [][NextConc]_vars

\* ------------------------------------------------------------- error serialization

\* The characters of messages and field names (a field name of the records
\* is one character of the model), in byte order.  "0xFF" is a
\* byte that is not valid UTF-8, "U+FFFD" the replacement character.
Alphabet ==
    <<"\n", "\"", ",", "<", "Code", "Count", "Name", "X", "Y", "\\", "a", "b", "n",
      "U+FFFD", "0xFF">>
Rank(c) == IF \E i \in 1..Len(Alphabet) : Alphabet[i] = c
           THEN CHOOSE i \in 1..Len(Alphabet) : Alphabet[i] = c
           ELSE 0

\* strings.Compare(x, y) < 0, byte by byte.
RECURSIVE Less(_, _)
Less(x, y) ==
    IF y = <<>> THEN FALSE
    ELSE IF x = <<>> THEN TRUE
    ELSE IF Head(x) # Head(y) THEN Rank(Head(x)) < Rank(Head(y))
    ELSE Less(Tail(x), Tail(y))

\* The keys of a map in the order json.Marshal writes them (sorted).
RECURSIVE SortedKeys(_)
SortedKeys(S) ==
    IF S = {} THEN <<>>
    ELSE LET k == CHOOSE x \in S : \A y \in S \ {x} : Less(x, y)
         IN  <<k>> \o SortedKeys(S \ {k})

\* encoding/json's string escaping of one character (HTML escaping on):
\* quote, backslash and newline get a backslash, "<" is written as the
\* escape u003c and an invalid byte as the escape ufffd, everything else
\* is written as it is.
EscapeChar(c) ==
    CASE c = "\"" -> <<"\\", "\"">>
      [] c = "\\" -> <<"\\", "\\">>
      [] c = "\n" -> <<"\\", "n">>
      [] c = "<" -> <<"\\", "u003c">>
      [] c = "0xFF" -> <<"\\", "ufffd">>
      [] OTHER -> <<c>>

RECURSIVE EscapeAll(_)
EscapeAll(str) == IF str = <<>> THEN <<>> ELSE EscapeChar(Head(str)) \o EscapeAll(Tail(str))

\* A Go string as a JSON string.
EncodeString(str) == <<"\"">> \o EscapeAll(str) \o <<"\"">>

\* A []string as a JSON array, from its i-th element.
RECURSIVE EncodeList(_, _)
EncodeList(list, i) ==
    IF i > Len(list) THEN <<>>
    ELSE (IF i > 1 THEN <<",">> ELSE <<>>) \o EncodeString(list[i]) \o EncodeList(list, i + 1)

\* A map[string][]string as a JSON object, from the i-th of its sorted keys.
RECURSIVE EncodeMembers(_, _, _)
EncodeMembers(fields, keys, i) ==
    IF i > Len(keys) THEN <<>>
    ELSE (IF i > 1 THEN <<",">> ELSE <<>>)
            \o EncodeString(keys[i]) \o <<":", "[">> \o EncodeList(fields[keys[i]], 1) \o <<"]">>
            \o EncodeMembers(fields, keys, i + 1)

EncodeMap(fields) == <<"{">> \o EncodeMembers(fields, SortedKeys(DOMAIN fields), 1) \o <<"}">>

\* The member of Err.Fields that is always written.
FieldsMemberAlways(fields) == <<",">> \o EncodeString(<<"fields">>) \o <<":">> \o EncodeMap(fields)

\* The member of Err.Fields, tagged `json:"fields,omitempty"`: nothing for
\* a nil or empty map.
FieldsMember(fields) ==
    IF DOMAIN fields = {} THEN <<>>
    ELSE <<",">> \o EncodeString(<<"fields">>) \o <<":">> \o EncodeMap(fields)

\* json.Marshal(&err) of an *Err.
Marshal(err) ==
    <<"{">> \o EncodeString(<<"message">>) \o <<":">> \o EncodeString(err.Msg)
            \o FieldsMember(err.Fields) \o <<"}">>

\* An error value that is not an *Err.
OtherError == <<[Other |-> <<"a">>]>>

\* ToJSONErr(e): the payload, empty for nil and for an error that is not *Err.
ToJSONErr(e) ==
    IF e = <<>> THEN <<>>
    ELSE IF "Msg" \notin DOMAIN e[1] THEN <<>>
    ELSE Marshal(e[1])

\* json.Unmarshal's character for the escape \x.
Unescape(x) ==
    CASE x = "n" -> "\n"
      [] x = "u003c" -> "<"
      [] x = "ufffd" -> "U+FFFD"
      [] OTHER -> x

\* json.Unmarshal of the characters of a string, t[i] the first after the
\* opening quote: the string and the position after the closing quote.
RECURSIVE DecodeChars(_, _, _)
DecodeChars(t, i, acc) ==
    IF t[i] = "\"" THEN [val |-> acc, next |-> i + 1]
    ELSE IF t[i] = "\\" THEN DecodeChars(t, i + 2, Append(acc, Unescape(t[i + 1])))
    ELSE DecodeChars(t, i + 1, Append(acc, t[i]))

RECURSIVE DecodeValue(_, _)
RECURSIVE DecodeItems(_, _, _)
RECURSIVE DecodeMembers(_, _, _)

\* The elements of an array, t[i] the first character after "[" or ",".
DecodeItems(t, i, acc) ==
    IF t[i] = "]" THEN [val |-> acc, next |-> i + 1]
    ELSE LET v == DecodeValue(t, i)
         IN  DecodeItems(t, IF t[v.next] = "," THEN v.next + 1 ELSE v.next, Append(acc, v.val))

\* The members of an object, t[i] the first character after "{" or ",": a
\* key that comes again replaces the earlier one.
DecodeMembers(t, i, acc) ==
    IF t[i] = "}" THEN [val |-> acc, next |-> i + 1]
    ELSE LET k == DecodeChars(t, i + 1, <<>>)
             v == DecodeValue(t, k.next + 1)
         IN  DecodeMembers(t, IF t[v.next] = "," THEN v.next + 1 ELSE v.next,
                           MapPut(acc, k.val, v.val))

\* json.Unmarshal into an interface{}: a string is a sequence of characters,
\* an array the sequence of its elements in a record, an object its map.
DecodeValue(t, i) ==
    CASE t[i] = "\"" -> DecodeChars(t, i + 1, <<>>)
      [] t[i] = "[" -> LET r == DecodeItems(t, i + 1, <<>>)
                       IN  [val |-> [items |-> r.val], next |-> r.next]
      [] t[i] = "{" -> DecodeMembers(t, i + 1, EmptyMap)

Unmarshal(t) == DecodeValue(t, 1).val

\* The messages and field maps the callers build errors from.
Msgs ==
    {<<>>, <<"a">>, <<"a", "\"", "b">>, <<"\\", "n">>, <<"\n", "<">>, <<"a", ",", "b">>,
     <<"U+FFFD">>, <<"a", "0xFF">>}
FieldNames == {<<"a">>, <<"a", "b">>, <<"\"">>, <<"U+FFFD">>, <<"0xFF">>}
FieldMaps ==
    {EmptyMap}
    \cup {(k :> <<m>>) : k \in FieldNames, m \in {<<"a">>, <<"\\", "n">>, <<"0xFF">>}}
    \cup {(k :> <<<<"b">>, <<"a", ",", "\"">>>>) @@ (<<"b">> :> <<<<"\"">>>>) : k \in FieldNames}
    \cup {(<<"U+FFFD">> :> <<<<"a">>>>) @@ (<<"0xFF">> :> <<<<"b">>>>)}

\* The records whose errors are serialized.
JSONInputs ==
    {NilPtr, PtrTo(Account(<<"required", " ", "min", "=", "2">>, <<>>, <<"a">>)),
     PtrTo(Account(<<"required">>, <<"a">>, <<"a">>)),
     PtrTo(Part(<<"trim">>, <<"trim">>))}

\* err := NewErr(msg, fields)
NewErrCall(msg, fields) ==
    /\ arg' = NilIface /\ dto' = NilIface
    /\ ret' = [Idle EXCEPT !.op = "NewErr", !.ok = FALSE, !.err = NewErr(msg, fields)]
    /\ UNCHANGED <<rules, transformers, priorityLookup, latest, flight, run>>

\* err := errors.New(...)
ErrorsNew ==
    /\ arg' = NilIface /\ dto' = NilIface
    /\ ret' = [Idle EXCEPT !.op = "errors.New", !.ok = FALSE, !.err = OtherError]
    /\ UNCHANGED <<rules, transformers, priorityLookup, latest, flight, run>>

\* ToJSONErr(err) of the error the last call returned.
ToJSONErrCall ==
    /\ ret.op \in {"Validate", "Transform", "NewErr", "errors.New"}
    /\ arg' = NilIface /\ dto' = NilIface
    /\ ret' = [op |-> "ToJSONErr", ok |-> TRUE, err |-> ret.err, calls |-> <<>>,
               out |-> ToJSONErr(ret.err)]
    /\ UNCHANGED <<rules, transformers, priorityLookup, latest, flight, run>>

NextJSON ==
    \/ AddTransformer(<<"trim">>, "reject")
    \/ Ready /\ \E d \in JSONInputs : ValidateCall(d)
    \/ Ready /\ \E d \in JSONInputs : TransformCall(d)
    \/ Ready /\ \E msg \in Msgs, fields \in FieldMaps : NewErrCall(msg, fields)
    \/ Ready /\ ErrorsNew
    \/ ToJSONErrCall

SpecJSON == Init /\ [][NextJSON]_vars

\* ------------------------------------------------------------- calls step by step

\* A stack frame's record is the Node rec of the heap, or a Leaf value (0).
NumField(rec) == IF rec = 0 THEN 1 ELSE 4
KindOf(rec, i) == IF rec = 0 THEN "string" ELSE <<"string", "struct", "slice", "ptr">>[i]
\* Whether field i carries a transform tag (a validator tag, for Validate).
Tagged(rec, i) == KindOf(rec, i) = "string"
\* The elements of Items.
Items == <<0>>

\* A pointer field that is followed and never followed.
FollowNone(h, rec) == FALSE
\* fieldVal.Kind() == reflect.Ptr && !fieldVal.IsNil() && fieldVal.Elem().Kind() == reflect.Struct
FollowPtr(h, rec) == h[rec] # 0

\* The frame of a call of transformStruct (or of Validate's loop) on rec:
\* field index i, position pc in the loop body, slice index j, and whether
\* violations is non-empty.
Frame(rec, pc) == [rec |-> rec, i |-> 1, pc |-> pc, j |-> 1, bad |-> FALSE]
Top(r) == r.stack[Len(r.stack)]
SetTop(r, f) == [r EXCEPT !.stack[Len(r.stack)] = f]
\* On to the next field of the loop.
NextField(f, bad) == [f EXCEPT !.i = f.i + 1, !.pc = "struct", !.j = 1, !.bad = bad]

\* The call of the top frame returns: non-nil error iff it has violations.
Return(r) ==
    [r EXCEPT !.stack = SubSeq(r.stack, 1, Len(r.stack) - 1),
              !.err = Top(r).bad,
              !.status = IF Len(r.stack) = 1 THEN "returned" ELSE "running"]

\* transformStruct calls itself on rec; the caller goes on at back.  The
\* stack cannot grow beyond the runtime's limit.
Enter(r, rec, back) ==
    IF Len(r.stack) >= MaxDepth THEN [r EXCEPT !.status = "overflow"]
    ELSE [SetTop(r, [Top(r) EXCEPT !.pc = back]) EXCEPT
                !.stack = Append(@, Frame(rec, "struct"))]

\* One step of transformStruct in the top frame; failed: the field's
\* transforms returned an error.
AfterTransform(r, failed) ==
    LET f == Top(r)
        kind == KindOf(f.rec, f.i)
    IN  IF f.i > NumField(f.rec) THEN Return(r)
        ELSE CASE f.pc = "struct" ->
                    IF kind = "struct" THEN Enter(r, 0, "struct_ret")
                    ELSE SetTop(r, [f EXCEPT !.pc = "ptr"])
               [] f.pc = "struct_ret" ->
                    IF r.err THEN SetTop(r, NextField(f, TRUE))
                    ELSE SetTop(r, [f EXCEPT !.pc = "ptr"])
               [] f.pc = "ptr" ->
                    IF kind = "ptr" /\ FollowPtr(r.heap, f.rec)
                    THEN Enter(r, r.heap[f.rec], "ptr_ret")
                    ELSE SetTop(r, [f EXCEPT !.pc = "slice"])
               [] f.pc = "ptr_ret" ->
                    IF r.err THEN SetTop(r, NextField(f, TRUE))
                    ELSE SetTop(r, [f EXCEPT !.pc = "slice"])
               [] f.pc = "slice" ->
                    IF kind = "slice" /\ f.j <= Len(Items)
                    THEN Enter(r, Items[f.j], "slice_ret")
                    ELSE SetTop(r, [f EXCEPT !.pc = "apply"])
               [] f.pc = "slice_ret" ->
                    SetTop(r, [f EXCEPT !.pc = "slice", !.j = f.j + 1, !.bad = f.bad \/ r.err])
               [] f.pc = "apply" -> SetTop(r, NextField(f, f.bad \/ failed))

\* One step of Validate's loop over the fields; failed: a rule of the
\* field's tag returned a message.
AfterValidate(r, failed) ==
    LET f == Top(r)
    IN  IF f.i > NumField(f.rec) THEN Return(r)
        ELSE SetTop(r, [f EXCEPT !.i = f.i + 1, !.bad = f.bad \/ failed])

\* What the functions of the field's tag may return at this step.
Outcomes(r) ==
    LET f == Top(r)
    IN  IF f.i <= NumField(f.rec) /\ f.pc \in {"apply", "rules"} /\ Tagged(f.rec, f.i)
        THEN BOOLEAN ELSE {FALSE}

\* The caller sets n.Next = m (nil when m = 0).
Link(n, m) ==
    /\ run.status = "idle"
    /\ run' = [run EXCEPT !.heap[n] = m]
    /\ UNCHANGED <<rules, transformers, priorityLookup, arg, dto, ret, latest, flight>>

\* Transform(root) or Validate(root) is called.
CallOn(op, root) ==
    /\ run.status = "idle"
    /\ run' = [run EXCEPT !.op = op, !.root = root, !.status = "running",
                          !.stack = <<Frame(root, IF op = "Transform" THEN "struct" ELSE "rules")>>]
    /\ UNCHANGED <<rules, transformers, priorityLookup, arg, dto, ret, latest, flight>>

TransformStep ==
    /\ run.status = "running" /\ run.op = "Transform"
    /\ \E failed \in Outcomes(run) : run' = AfterTransform(run, failed)
    /\ UNCHANGED <<rules, transformers, priorityLookup, arg, dto, ret, latest, flight>>

ValidateStep ==
    /\ run.status = "running" /\ run.op = "Validate"
    /\ \E failed \in Outcomes(run) : run' = AfterValidate(run, failed)
    /\ UNCHANGED <<rules, transformers, priorityLookup, arg, dto, ret, latest, flight>>

NextWalk ==
    \/ \E n \in Nodes, m \in Nodes \cup {0} : Link(n, m)
    \/ \E op \in {"Validate", "Transform"}, root \in Nodes : CallOn(op, root)
    \/ TransformStep
    \/ ValidateStep

\* A call that has a step to take takes it: calls run to completion on
\* their thread.
SpecWalk == Init /\ [][NextWalk]_vars /\ WF_vars(TransformStep) /\ WF_vars(ValidateStep)

\* ------------------------------------------------------------- properties

\* A struct, or a non-nil pointer to a struct.
StructShaped(d) ==
    \/ d.kind = "struct"
    \/ d.kind = "ptr" /\ d.elem # <<>> /\ d.elem[1].kind = "struct"
\* The struct a struct-shaped dto holds.
RecordOf(d) == IF d.kind = "ptr" THEN d.elem[1] ELSE d

RECURSIVE Flatten(_)
Flatten(ss) == IF ss = <<>> THEN <<>> ELSE Head(ss) \o Flatten(Tail(ss))

\* The messages of the rules bound to the names of a field's tokens, token
\* by token from the left.
MessagesOf(field) ==
    LET toks == Fields(field.vtag)
        nameOf(k) == Split(toks[k], "=")[1]
    IN  Flatten([k \in 1..Len(toks) |->
                    IF nameOf(k) \in DOMAIN rules
                    THEN CallRule(rules[nameOf(k)], field.val, field) ELSE <<>>])

\* C1: Validate of a struct-shaped input returns (true, nil) exactly when no
\* registered rule named in a field's validator tag returns a message;
\* otherwise (false, err), err's field map keyed by exactly the fields that
\* received a message, each list the concatenation, in token order, of the
\* messages of the rules looked up for that field's tokens.
C1_ValidateResult ==
    (ret.op = "Validate" /\ StructShaped(arg)) =>
        LET fs == RecordOf(arg).fields
            failing == {i \in 1..Len(fs) : MessagesOf(fs[i]) # <<>>}
        IN  /\ ret.ok = (failing = {})
            /\ (failing = {}) = (ret.err = <<>>)
            /\ failing # {} =>
                 /\ ret.err[1].Msg = <<"validation failed">>
                 /\ DOMAIN ret.err[1].Fields = {<<fs[i].name>> : i \in failing}
                 /\ \A i \in failing : ret.err[1].Fields[<<fs[i].name>>] = MessagesOf(fs[i])

\* A field failed two rules of its tag and another field failed too.
C1_Witness ==
    /\ ret.op = "Validate" /\ StructShaped(arg) /\ ~ret.ok
    /\ <<"Code">> \in DOMAIN ret.err[1].Fields
    /\ <<"Name">> \in DOMAIN ret.err[1].Fields
    /\ ret.err[1].Fields[<<"Name">>] =
           <<<<"field is required">>, <<"length must be at least ", "2">>>>

\* C2: Validate and Transform of an input that is not struct-shaped return
\* an invalid-input error with an empty field map (Validate also ok=false),
\* invoke no rule or transform, and leave the input as it was.
C2_InvalidInput ==
    (ret.op \in {"Validate", "Transform"} /\ ~StructShaped(arg)) =>
        /\ ~ret.ok
        /\ ret.err # <<>>
        /\ ret.err[1].Msg \in {<<"invalid payload">>, <<"input must be a struct">>}
        /\ DOMAIN ret.err[1].Fields = {}
        /\ ret.calls = <<>>
        /\ dto = arg

\* Transform was given a pointer to a pointer to a struct whose fields carry tags.
C2_Witness ==
    /\ ret.op = "Transform" /\ arg.kind = "ptr" /\ arg.elem # <<>>
    /\ arg.elem[1].kind = "ptr" /\ StructShaped(arg.elem[1])
    /\ ret.err # <<>> /\ ret.err[1].Msg = <<"input must be a struct">>

\* The binding a registry must hold for each name: the function of the most
\* recent registration call for it, else the built-in one.
BindsLatest(reg, builtin, last) ==
    /\ DOMAIN reg = DOMAIN builtin \cup DOMAIN last
    /\ \A n \in DOMAIN reg : reg[n] = IF n \in DOMAIN last THEN last[n] ELSE builtin[n]

\* C9: each registry binds every name to the function of the most recent
\* registration call for that name (the built-in function if never
\* re-registered), no name that was bound is unbound, and a call dispatches
\* to those bindings.
C9_LastWriterWins ==
    /\ BindsLatest(rules, BuiltinRules, latest.rules)
    /\ BindsLatest(transformers, BuiltinTransformers, latest.transformers)
    /\ ret.op = "Validate" =>
         \A i \in 1..Len(ret.calls) :
            ret.calls[i].fn = (latest.rules @@ BuiltinRules)[ret.calls[i].name]
    /\ ret.op = "Transform" =>
         \A i \in 1..Len(ret.calls) :
            ret.calls[i].fn = (latest.transformers @@ BuiltinTransformers)[ret.calls[i].name]

\* Validate dispatched "required" to the rule that replaced the built-in one.
C9_Witness ==
    /\ ret.op = "Validate"
    /\ rules[<<"required">>] = "both"
    /\ \E i \in 1..Len(ret.calls) :
          ret.calls[i].name = <<"required">> /\ ret.calls[i].fn = "both"

\* d with the i-th field of its struct replaced by f.
WithField(d, i, f) ==
    IF d.kind = "ptr" THEN PtrTo([RecordOf(d) EXCEPT !.fields[i] = f])
    ELSE [d EXCEPT !.fields[i] = f]
\* The tokens toks without the k-th.
Without(toks, k) == SubSeq(toks, 1, k - 1) \o SubSeq(toks, k + 1, Len(toks))

\* Validate's result does not change when a token whose name no rule is
\* bound to is removed from a field's validator tag.
UnknownRuleTokenIgnored ==
    (ret.op = "Validate" /\ StructShaped(arg)) =>
        \A i \in 1..Len(RecordOf(arg).fields) :
            LET f == RecordOf(arg).fields[i]
                toks == Fields(f.vtag)
            IN  \A k \in 1..Len(toks) :
                    Split(toks[k], "=")[1] \notin DOMAIN rules =>
                        LET less == WithField(arg, i, [f EXCEPT !.vtag = Join(Without(toks, k))])
                            r == Validate(less, Oracle(<<>>, rules))
                        IN  r.ok = ret.ok /\ r.err = ret.err

\* Transform's error and final field values do not change when a token whose
\* name no transform is bound to is removed from a field's transform tag.
UnknownTransformTokenIgnored ==
    (ret.op = "Transform" /\ StructShaped(arg)) =>
        \A i \in 1..Len(RecordOf(arg).fields) :
            LET f == RecordOf(arg).fields[i]
                toks == Fields(f.ttag)
            IN  \A k \in 1..Len(toks) :
                    toks[k] \notin DOMAIN transformers =>
                        LET less == WithField(arg, i, [f EXCEPT !.ttag = Join(Without(toks, k))])
                            r == Transform(less, Oracle(<<>>, transformers))
                        IN  /\ r.err = ret.err
                            /\ RecordOf(r.dto).fields[i].val = RecordOf(dto).fields[i].val
                            /\ \A j \in 1..Len(RecordOf(dto).fields) :
                                  j # i => RecordOf(r.dto).fields[j] = RecordOf(dto).fields[j]

\* C3: a token of a validator tag or of a transform tag whose name is not
\* bound in the registry has no effect: Validate's result (ok, field map) and
\* Transform's result (error, final field values) are those of the same
\* record with the token removed from the tag.
C3_UnknownTokenNoEffect == UnknownRuleTokenIgnored /\ UnknownTransformTokenIgnored

\* The documented priority of a built-in transform name.
DocumentedPriority(t) ==
    CASE t = <<"trim">> -> 1
      [] t = <<"remove_whitespace">> -> 2
      [] t = <<"lowercase">> -> 3
      [] t = <<"uppercase">> -> 4
Count(seq, x) == Cardinality({i \in 1..Len(seq) : seq[i] = x})
Orderings(n) == {p \in [1..n -> 1..n] : \A i, j \in 1..n : p[i] = p[j] => i = j}

\* C4: for a transform tag made of built-in names, in any order and with
\* any repetition, Transform invokes the transforms on the field in ascending
\* priority trim < remove_whitespace < lowercase < uppercase (all of them
\* when none fails), and every permutation of the tag's tokens gives the
\* same error and the same final field value.
C4_PriorityOrder ==
    (ret.op = "Transform" /\ StructShaped(arg)) =>
        LET f == RecordOf(arg).fields[1]
            toks == Fields(f.ttag)
            invoked == [i \in 1..Len(ret.calls) |-> ret.calls[i].name]
        IN  /\ \A i, j \in 1..Len(invoked) :
                  i < j => DocumentedPriority(invoked[i]) <= DocumentedPriority(invoked[j])
            /\ \A t \in BuiltinNames : Count(invoked, t) <= Count(toks, t)
            /\ ret.ok => \A t \in BuiltinNames : Count(invoked, t) = Count(toks, t)
            /\ ~ret.ok => ret.calls[Len(ret.calls)].fn = "reject"
            /\ \A p \in Orderings(Len(toks)) :
                  LET other == WithField(arg, 1,
                                  [f EXCEPT !.ttag = Join([i \in 1..Len(toks) |-> toks[p[i]]])])
                      r == Transform(other, Oracle(<<>>, transformers))
                  IN  /\ r.err = ret.err
                      /\ RecordOf(r.dto).fields[1].val = RecordOf(dto).fields[1].val

\* "lowercase trim" on " Ab " ran trim and then lowercase, and left "ab".
C4_Witness ==
    /\ ret.op = "Transform" /\ StructShaped(arg) /\ ret.ok
    /\ RecordOf(arg).fields[1].ttag = <<"lowercase", " ", "trim">>
    /\ RecordOf(arg).fields[1].val = StringV(<<" ", "A", "b", " ">>)
    /\ RecordOf(dto).fields[1].val = StringV(<<"a", "b">>)
    /\ Len(ret.calls) = 2
    /\ ret.calls[1].name = <<"trim">> /\ ret.calls[2].name = <<"lowercase">>

\* The full path of every field of the struct val, at any depth: a field of
\* a struct or pointed-to struct field F is "F." and its path, a field of
\* the i-th element of a slice field F is "F[i]." and its path.
RECURSIVE PathsOf(_)
PathsOf(val) ==
    UNION {
        LET f == val.fields[i]
            under(prefix, v) == {prefix \o q : q \in PathsOf(v)}
        IN  {<<f.name>>} \cup
            CASE f.val.kind = "struct" -> under(<<f.name, ".">>, f.val)
              [] StructShaped(f.val) -> under(<<f.name, ".">>, f.val.elem[1])
              [] f.val.kind = "slice" ->
                    UNION {IF f.val.elems[j].kind = "struct"
                           THEN under(<<f.name, "[", Itoa(j - 1), "]", ".">>, f.val.elems[j])
                           ELSE {} : j \in 1..Len(f.val.elems)}
              [] OTHER -> {}
        : i \in 1..Len(val.fields)}

\* The invocations of the last call that failed.
FailedCalls == {i \in 1..Len(ret.calls) : ret.calls[i].fn = "reject"}

\* C5: a transform failure on a field nested at any depth is reported under
\* the field's full path from the top-level record ("Name." for each
\* enclosing struct or pointer field, "Name[i]." for each enclosing slice
\* element), and distinct failing fields never share a key.
C5_FullPaths ==
    (ret.op = "Transform" /\ StructShaped(arg)) =>
        LET failed == {ret.calls[i].path : i \in FailedCalls}
        IN  /\ failed \subseteq PathsOf(RecordOf(arg))
            /\ Cardinality(failed) = Cardinality(FailedCalls)
            /\ (failed = {}) = (ret.err = <<>>)
            /\ failed # {} =>
                 /\ DOMAIN ret.err[1].Fields = failed
                 /\ \A k \in failed : ret.err[1].Fields[k] = <<<<"rejected">>>>

\* Failures three levels deep, in a slice element, in a pointed-to struct
\* and at the top level were reported by one call.
C5_Witness ==
    /\ ret.op = "Transform" /\ StructShaped(arg) /\ ret.err # <<>>
    /\ {<<"A", ".", "B", "[", "1", "]", ".", "C">>, <<"Items", "[", "1", "]", ".", "X">>,
        <<"Ref", ".", "X">>, <<"Title">>} \subseteq DOMAIN ret.err[1].Fields

\* Whether v is a value Transform recurses into.
Aggregate(v) ==
    \/ v.kind = "struct"
    \/ StructShaped(v)
    \/ v.kind = "slice" /\ \E j \in 1..Len(v.elems) : v.elems[j].kind = "struct"

\* C7: a settable field that is a struct, a non-nil pointer to a struct or a
\* slice of structs and carries a transform tag has the registered
\* transforms of its tag invoked on the field itself, also when the
\* recursion into the field reported failures.  (Stated of the fields of the
\* top-level record, given through a pointer.)
C7_OwnTagProcessed ==
    (ret.op = "Transform" /\ StructShaped(arg) /\ arg.kind = "ptr") =>
        \A i \in 1..Len(RecordOf(arg).fields) :
            LET f == RecordOf(arg).fields[i]
            IN  (/\ f.exported
                 /\ Aggregate(f.val)
                 /\ \E k \in 1..Len(Fields(f.ttag)) : Fields(f.ttag)[k] \in DOMAIN transformers)
                => \E c \in 1..Len(ret.calls) :
                      /\ ret.calls[c].path = <<f.name>>
                      /\ ret.calls[c].name \in {Fields(f.ttag)[k] : k \in 1..Len(Fields(f.ttag))}

\* The string fields of the struct val, at any depth, each with its path.
RECURSIVE LeavesOf(_)
LeavesOf(val) ==
    UNION {
        LET f == val.fields[i]
            under(prefix, v) == {<<prefix \o q[1], q[2]>> : q \in LeavesOf(v)}
        IN  CASE f.val.kind = "string" -> {<<<<f.name>>, f.val.s>>}
              [] f.val.kind = "struct" -> under(<<f.name, ".">>, f.val)
              [] StructShaped(f.val) -> under(<<f.name, ".">>, f.val.elem[1])
              [] f.val.kind = "slice" ->
                    UNION {IF f.val.elems[j].kind = "struct"
                           THEN under(<<f.name, "[", Itoa(j - 1), "]", ".">>, f.val.elems[j])
                           ELSE {} : j \in 1..Len(f.val.elems)}
              [] OTHER -> {}
        : i \in 1..Len(val.fields)}

\* The registry in which every failing transform succeeds instead.
NoneFailing == [n \in DOMAIN transformers |->
                   IF transformers[n] = "reject" THEN "pass" ELSE transformers[n]]

\* C6: a transform failure is contained to its field: no later transform of
\* the field's pipeline is invoked on it, its message is recorded and
\* Transform returns an error, while every other field ends with the value
\* it would have had if the failure had not occurred.
C6_FailureContained ==
    (ret.op = "Transform" /\ StructShaped(arg)) =>
        LET failed == {ret.calls[i].path : i \in FailedCalls}
            otherwise == Transform(arg, Oracle(<<>>, NoneFailing))
            others(d) == {q \in LeavesOf(RecordOf(d)) : q[1] \notin failed}
        IN  /\ \A i \in FailedCalls : \A j \in 1..Len(ret.calls) :
                  j > i => ret.calls[j].path # ret.calls[i].path
            /\ failed # {} => ret.err # <<>> /\ failed \subseteq DOMAIN ret.err[1].Fields
            /\ others(dto) = others(otherwise.dto)

\* The paths of the fields stored in the struct val itself: its own fields
\* and, for a field that is a struct, that struct's (no pointer or slice
\* is followed).
RECURSIVE DirectPaths(_)
DirectPaths(val) ==
    UNION {
        LET f == val.fields[i]
        IN  {<<f.name>>} \cup
            IF f.val.kind = "struct"
            THEN {<<f.name, ".">> \o q : q \in DirectPaths(f.val)} ELSE {}
        : i \in 1..Len(val.fields)}

\* C8 as stated: Transform of a struct passed by value fails at once with an
\* invalid-input error, and no transform function is invoked.
C8_ByValueRejected ==
    (ret.op = "Transform" /\ arg.kind = "struct") =>
        /\ ret.err # <<>>
        /\ ret.err[1].Msg \in {<<"invalid payload">>, <<"input must be a struct">>}
        /\ ret.calls = <<>>

\* C8, amended: Transform of a struct passed by value returns no
\* invalid-input error.  The fields stored in the struct value itself (its
\* own and those of its struct-valued fields) are skipped: no transform is
\* invoked on them and they keep their values.  Fields reached through a
\* pointer or a slice element are transformed, and the error is nil unless
\* one of those transforms fails.
C8_ByValueSkipped ==
    (ret.op = "Transform" /\ arg.kind = "struct") =>
        LET direct == DirectPaths(arg)
        IN  /\ ret.err # <<>> => ret.err[1].Msg = <<"transformation failed">>
            /\ (ret.err = <<>>) = (FailedCalls = {})
            /\ \A c \in 1..Len(ret.calls) : ret.calls[c].path \notin direct
            /\ {q \in LeavesOf(dto) : q[1] \in direct} = {q \in LeavesOf(arg) : q[1] \in direct}

\* A struct given by value came back without error, its own tagged field
\* untouched and a field behind its pointer trimmed.
C8_Witness ==
    /\ ret.op = "Transform" /\ arg.kind = "struct" /\ ret.err = <<>>
    /\ <<<<"Title">>, <<" ", "A", " ">>>> \in LeavesOf(dto)
    /\ \E i \in 1..Len(arg.fields) : arg.fields[i].name = "Title" /\ arg.fields[i].ttag = <<"trim">>
    /\ <<<<"Ref", ".", "X">>, <<"a">>>> \in LeavesOf(dto)
    /\ \E c \in 1..Len(ret.calls) : ret.calls[c].path = <<"Ref", ".", "X">>

\* The call of f, run alone on the registry it found when it began.
Alone(f) ==
    [x \in {"dto", "ok", "err", "calls"} |-> ResultOf(f.op, f.d, Oracle(<<>>, f.reg0))[x]]

\* No registration changed what the lookups of f read.
Undisturbed(f) == \A i \in 1..Len(f.seen) : f.seen[i] = f.reg0

\* A step of a Validate or Transform call.
CallStep ==
    /\ Alive'
    /\ \E w \in Workers :
          flight'[w].phase # flight[w].phase \/ flight'[w].seen # flight[w].seen

C11_Idempotent ==
    (ret.op = "Transform" /\ StructShaped(arg) /\ transformers = BuiltinTransformers) =>
        LET again == Transform(dto, Oracle(<<>>, transformers))
        IN  /\ ret.err = <<>>
            /\ again.err = <<>>
            /\ again.dto = dto

\* A first Transform that trimmed "  b\n" to "b" and invoked three transforms.
C11_Witness ==
    /\ ret.op = "Transform" /\ StructShaped(arg) /\ transformers = BuiltinTransformers
    /\ RecordOf(arg).fields[1].val = StringV(<<" ", " ", "b", "\n">>)
    /\ RecordOf(dto).fields[1].val = StringV(<<"B">>)
    /\ Len(ret.calls) = 3
    /\ \E c \in 1..3 : ret.calls[c].name = <<"trim">>

\* The tokens of toks with priority p, in their declared order.
WithPriority(toks, p) ==
    SelectSeq(toks, LAMBDA t : t \in BuiltinNames /\ DocumentedPriority(t) = p)
\* The order the claim gives the tokens: the unlisted ones as declared, then
\* the built-in ones by ascending priority.
CustomFirst(toks) ==
    SelectSeq(toks, LAMBDA t : t \notin BuiltinNames)
        \o WithPriority(toks, 1) \o WithPriority(toks, 2)
        \o WithPriority(toks, 3) \o WithPriority(toks, 4)
\* The invocations a call makes of the tokens in that order: the bound
\* ones, up to and including the first that fails.
Invocations(toks, reg) ==
    LET bound == SelectSeq(CustomFirst(toks), LAMBDA t : t \in DOMAIN reg)
        fails == {i \in 1..Len(bound) : reg[bound[i]] = "reject"}
    IN  SubSeq(bound, 1, IF fails = {} THEN Len(bound) ELSE Min(fails))

\* C16: for a transform tag mixing built-in names and names absent from the
\* priority table, Transform invokes every unlisted transform before every
\* built-in one, the unlisted ones in their declared left-to-right order
\* and the built-in ones by ascending priority; the sequence of invocations
\* is determined by the tag (and the bindings): the bound tokens in that
\* order, up to the first that fails.
C16_CustomFirst ==
    (ret.op = "Transform" /\ StructShaped(arg)) =>
        LET toks == Fields(RecordOf(arg).fields[1].ttag)
            invoked == [i \in 1..Len(ret.calls) |-> ret.calls[i].name]
        IN  /\ \A i, j \in 1..Len(invoked) :
                  (i < j /\ invoked[j] \notin BuiltinNames) =>
                      invoked[i] \notin BuiltinNames
            /\ invoked = Invocations(toks, transformers)
            /\ ret.ok <=> \A i \in 1..Len(ret.calls) : ret.calls[i].fn # "reject"

\* "trim check slugify" on " Ab ": check, then slugify, then trim ran, and the
\* title is "-ab-" (slugify saw the spaces trim would have dropped).
C16_Witness ==
    /\ ret.op = "Transform" /\ StructShaped(arg) /\ ret.ok
    /\ RecordOf(arg).fields[1].ttag = <<"trim", " ", "check", " ", "slugify">>
    /\ RecordOf(arg).fields[1].val = StringV(<<" ", "A", "b", " ">>)
    /\ Len(ret.calls) = 3
    /\ [i \in 1..3 |-> ret.calls[i].name] = <<<<"check">>, <<"slugify">>, <<"trim">>>>
    /\ RecordOf(dto).fields[1].val = StringV(<<"-", "a", "b", "-">>)

\* A string json.Marshal writes unchanged: it holds no invalid byte.
ValidUTF8(str) == \A i \in 1..Len(str) : str[i] # "0xFF"
ValidErr(err) ==
    /\ ValidUTF8(err.Msg)
    /\ \A k \in DOMAIN err.Fields :
          /\ ValidUTF8(k)
          /\ \A i \in 1..Len(err.Fields[k]) : ValidUTF8(err.Fields[k][i])

\* The decoded "fields" member as a map from field name to message list.
FieldsOf(v) == [k \in DOMAIN v |-> v[k].items]

\* The decoded payload has "message" equal to the error's message, and
\* "fields" exactly when the field map is not empty, then equal to it.
RoundTrips(err, v) ==
    /\ <<"message">> \in DOMAIN v
    /\ v[<<"message">>] = err.Msg
    /\ (<<"fields">> \in DOMAIN v) = (DOMAIN err.Fields # {})
    /\ <<"fields">> \in DOMAIN v => FieldsOf(v[<<"fields">>]) = err.Fields

Serialized == ret.op = "ToJSONErr" /\ ret.err # <<>> /\ "Msg" \in DOMAIN ret.err[1]

\* C12 as stated: for every *Err, the payload of ToJSONErr, deserialized,
\* has "message" equal to the error's message, and "fields" if and only if
\* the field map is not empty, then equal to that map.
C12_RoundTrip == Serialized => RoundTrips(ret.err[1], Unmarshal(ret.out))

\* C12, amended: the payload, deserialized, always has "message", and has
\* "fields" if and only if the field map is not empty; they equal the
\* error's message and field map when the message, the field names and
\* the field messages are valid UTF-8 (which those of the errors Validate
\* and Transform return here are).
C12_RoundTripValid ==
    Serialized =>
        LET err == ret.err[1]
            v == Unmarshal(ret.out)
        IN  /\ <<"message">> \in DOMAIN v
            /\ (<<"fields">> \in DOMAIN v) = (DOMAIN err.Fields # {})
            /\ DOMAIN v \subseteq {<<"message">>, <<"fields">>}
            /\ ValidErr(err) => RoundTrips(err, v)
            /\ err.Msg \in {<<"validation failed">>, <<"transformation failed">>,
                            <<"invalid payload">>} => ValidErr(err)

\* An error with quotes, a backslash and two fields went through ToJSONErr
\* and back.
C12_Witness ==
    /\ Serialized
    /\ ret.err[1].Msg = <<"a", "\"", "b">>
    /\ DOMAIN ret.err[1].Fields = {<<"\"">>, <<"b">>}
    /\ ValidErr(ret.err[1])
    /\ RoundTrips(ret.err[1], Unmarshal(ret.out))

\* C13: Validate evaluates the validator tags of the top-level record's own
\* fields only: every rule it invokes is invoked on a top-level field, and
\* whatever the validator tag and the value of the fields of its nested
\* struct, pointed-to struct and slice elements, ok, the error and the
\* invocations are the same.
C13_Shallow ==
    (ret.op = "Validate" /\ arg \in Owners) =>
        LET top == RecordOf(arg).fields
        IN  /\ \A c \in 1..Len(ret.calls) :
                  \E i \in 1..Len(top) :
                      /\ ret.calls[c].path = <<top[i].name>>
                      /\ ret.calls[c].name \in
                            {Split(Fields(top[i].vtag)[k], "=")[1] :
                                k \in 1..Len(Fields(top[i].vtag))}
            /\ \A tn \in NestedTags, x \in NestedTexts :
                  LET other == PtrTo(StructV(
                                  [i \in 1..Len(top) |->
                                      IF top[i].name = "Inner"
                                      THEN [top[i] EXCEPT !.val = Leaf(tn, x)]
                                      ELSE IF top[i].name = "Ref"
                                      THEN [top[i] EXCEPT !.val = PtrTo(Leaf(tn, x))]
                                      ELSE IF top[i].name = "Items"
                                      THEN [top[i] EXCEPT !.val = SliceV(<<Leaf(tn, x)>>)]
                                      ELSE top[i]]))
                      r == Validate(other, Oracle(<<>>, rules))
                  IN  r.ok = ret.ok /\ r.err = ret.err /\ r.st.calls = ret.calls

\* A record whose nested fields are all empty and tagged "required", and
\* whose only violation is on its own slice field.
C13_Witness ==
    /\ ret.op = "Validate" /\ arg = PtrTo(Owner(<<"required">>, <<>>, <<"a">>))
    /\ rules = BuiltinRules
    /\ ~ret.ok
    /\ DOMAIN ret.err[1].Fields = {<<"Items">>}
    /\ Len(ret.calls) = 5

\* The regex of a token pattern=<regex>.
RegexOf(tok) == TrimPrefix(tok, <<"pattern", "=">>)
\* Validate reported "invalid format" on the field f.
InvalidFormat(f) ==
    /\ ret.err # <<>>
    /\ <<f.name>> \in DOMAIN ret.err[1].Fields
    /\ \E j \in 1..Len(ret.err[1].Fields[<<f.name>>]) :
          ret.err[1].Fields[<<f.name>>][j] = <<"invalid format">>
\* The fields of the validated record and the pattern tokens of their tags.
PatternFields ==
    {<<i, k>> \in (1..Len(RecordOf(arg).fields)) \X (1..MaxRules + 1) :
        LET f == RecordOf(arg).fields[i]
        IN  /\ f.val.kind = "string"
            /\ k <= Len(Fields(f.vtag))
            /\ HasPrefix(Fields(f.vtag)[k], <<"pattern", "=">>)
            /\ CompileOk(RegexOf(Fields(f.vtag)[k]))}

\* C14: with the built-in pattern rule bound, a string field whose
\* validator tag has a token pattern=<regex>, alone or alongside other
\* tokens, gets "invalid format" if and only if its value does not match
\* <regex>.
C14_PatternReported ==
    (ret.op = "Validate" /\ StructShaped(arg) /\ rules[<<"pattern">>] = "pattern") =>
        \A p \in PatternFields :
            LET f == RecordOf(arg).fields[p[1]]
            IN  InvalidFormat(f) = ~MatchString(RegexOf(Fields(f.vtag)[p[2]]), f.val.s)

\* The same of the tags that are one pattern token and nothing else.
PatternAloneReported ==
    (ret.op = "Validate" /\ StructShaped(arg) /\ rules[<<"pattern">>] = "pattern") =>
        \A p \in PatternFields :
            LET f == RecordOf(arg).fields[p[1]]
            IN  Len(Fields(f.vtag)) = 1 =>
                    InvalidFormat(f) = ~MatchString(RegexOf(Fields(f.vtag)[1]), f.val.s)

\* The chain of Next pointers from n ends (in nil) within k records.
RECURSIVE Ends(_, _, _)
Ends(h, n, k) == IF n = 0 THEN TRUE ELSE IF k = 0 THEN FALSE ELSE Ends(h, h[n], k - 1)
\* The record the running call was given does not reach itself.
Acyclic == Ends(run.heap, run.root, Cardinality(Nodes))
Running(op) == run.status = "running" /\ run.op = op

\* C15: Validate returns on every record, and Transform returns on every
\* record whose nesting is acyclic; on a record that reaches itself through
\* pointer-to-struct fields Transform never returns: it calls itself until
\* the stack is exhausted.
C15_Termination ==
    /\ Running("Validate") ~> run.status = "returned"
    /\ (Running("Transform") /\ Acyclic) ~> run.status = "returned"
    /\ (Running("Transform") /\ ~Acyclic) ~> run.status = "overflow"
    /\ [](run.op = "Transform" /\ ~Acyclic => run.status # "returned")
    /\ [](run.op = "Validate" \/ Acyclic => run.status # "overflow")

\* Transform returned on a chain of three records, one of whose transforms
\* failed.
C15_Witness ==
    /\ run.op = "Transform" /\ run.status = "returned" /\ run.root = 1
    /\ run.heap[1] = 2 /\ run.heap[2] = 3 /\ run.heap[3] = 0
    /\ run.err
====
